---- MODULE Spec2Model ----
(***************************************************************************)
(* A model of simpleperf's RecordFileWriter (record_file_writer.cpp).      *)
(*                                                                         *)
(* The destination file is a set of extents [off, len, skip, tag]: `len'   *)
(* bytes at offset `off' that were written by one fwrite of an object       *)
(* described by `tag', of which the first `skip' bytes were later           *)
(* overwritten.  Bytes covered by no extent are holes.  Every fseek, ftello,*)
(* fread, fwrite, fopen and fclose of a handler can fail; `failAt' is the   *)
(* index of the I/O call of the handler that fails (0: none).  A failed     *)
(* fwrite transfers nothing.                                                *)
(***************************************************************************)
EXTENDS Integers, Sequences, FiniteSets, TLC

\* ---------------------------------------------------------------- bounds
MaxRecords == 3        \* WriteRecord calls of a lifetime (SpecSort)
MaxCalls == 4          \* calls of a lifetime (Spec)
MaxBigRecords == 2     \* WriteRecord calls of a lifetime (SpecSplit)
MaxAttrCalls == 1      \* WriteAttrSection calls of a lifetime
MaxSorts == 1          \* SortDataSection calls of a lifetime
MaxFeatures == 2       \* the largest feature_count
MaxCloses == 2         \* Close calls of a lifetime
MaxLifeCalls == 2      \* calls of a lifetime before its end (SpecLife)
MaxIoFailures == 1     \* failing I/O calls of a lifetime
NumCpus == 2           \* lanes
MaxTime == 2           \* timestamps
MaxFeatCalls == 3      \* WriteFeatureHeader and feature calls (SpecFeat)

\* ------------------------------------------------------ program constants
RECORD_SIZE_LIMIT == 65535
HeaderSize == 8
SizeofFileHeader == 104
SizeofFileAttr == 128
SizeofU64 == 8
SizeofU32 == 4
SizeofSectionDesc == 16
StringAlign == 64
SIMPLE_PERF_RECORD_TYPE_START == 32768
SIMPLE_PERF_RECORD_SPLIT == 32772
SIMPLE_PERF_RECORD_SPLIT_END == 32773
PERF_RECORD_SAMPLE == 9
SIMPLE_PERF_RECORD_DSO == 32770
FEAT_BUILD_ID == 2
FEAT_ARCH == 6
FEAT_CMDLINE == 11
FEAT_BRANCH_STACK == 15

VARIABLES
  status,                 \* "running", or "aborted" once a CHECK has failed
  alive,                  \* the writer object has not been destroyed
  record_fp_,             \* "open" or "null"
  file,                   \* the destination file: a set of extents
  pos,                    \* the file position of record_fp_
  attr_section_offset_,
  attr_section_size_,
  data_section_offset_,
  data_section_size_,
  feature_count_,
  current_feature_index_,
  features_,              \* sequence of feature kinds, in push_back order
  event_attr_,            \* the retained attribute configuration
  sort,                   \* the locals of a running SortDataSection()
  tmp,                    \* scratch files: lane -> [exists, open, recs]
  calls,                  \* how many calls of each operation were made
  last,                   \* what the last completed call did and returned
  env                     \* what happened so far: fclose and
                          \* WriteFileHeader calls, failed I/O calls, whether
                          \* every call returned true, and the history of
                          \* the descriptor table since WriteFeatureHeader

vars == <<status, alive, record_fp_, file, pos, attr_section_offset_,
          attr_section_size_, data_section_offset_, data_section_size_,
          feature_count_, current_feature_index_, features_, event_attr_,
          sort, tmp, calls, last, env>>

fields == <<attr_section_offset_, attr_section_size_, data_section_offset_,
            data_section_size_, feature_count_, current_feature_index_,
            features_, event_attr_>>

Min(a, b) == IF a < b THEN a ELSE b
Max(a, b) == IF a > b THEN a ELSE b

\* ------------------------------------------------------------- the file
Tag(k, v) == [k |-> k, v |-> v, bits |-> {}]

Extent(off, len, tag) == [off |-> off, len |-> len, skip |-> 0, tag |-> tag]

FileSize(f) ==
  IF f = {} THEN 0
  ELSE LET e == CHOOSE x \in f : \A y \in f : y.off + y.len <= x.off + x.len
       IN e.off + e.len

\* What is left of extent e once [p, p + len) is overwritten.
Trim(e, p, len) ==
  LET hi == p + len
      left == IF e.off < p
              THEN {[e EXCEPT !.len = Min(e.len, p - e.off)]}
              ELSE {}
      from == Max(e.off, hi)
      right == IF e.off + e.len > hi
               THEN {[e EXCEPT !.off = from,
                               !.len = e.off + e.len - from,
                               !.skip = e.skip + (from - e.off)]}
               ELSE {}
  IN left \cup right

WriteAt(f, p, len, tag) ==
  UNION {Trim(e, p, len) : e \in f} \cup {Extent(p, len, tag)}

\* ------------------------------------------------- the stdio calls (FILE*)
\* The I/O state of a running handler: the file, the position, the number
\* of I/O calls made, the call that fails, the result of the last call,
\* whether an I/O call failed, the running data_section_size_, and whether
\* a CHECK aborted the process.
Io(f, p, dsz, failAt) ==
  [file |-> f, pos |-> p, n |-> 0, failAt |-> failAt, ok |-> TRUE,
   err |-> FALSE, dsz |-> dsz, abort |-> FALSE, val |-> 0]

Failed(s) == [s EXCEPT !.n = s.n + 1, !.ok = FALSE, !.err = TRUE]

\* fwrite(buf, len, 1, fp) != 1 : with len = 0 fwrite returns 0.
fwrite(s, len, tag) ==
  IF s.n + 1 = s.failAt THEN Failed(s)
  ELSE IF len = 0 THEN [s EXCEPT !.n = s.n + 1, !.ok = FALSE]
  ELSE [s EXCEPT !.n = s.n + 1, !.ok = TRUE,
                 !.file = WriteAt(s.file, s.pos, len, tag),
                 !.pos = s.pos + len]

fseek(s, target) ==
  IF s.n + 1 = s.failAt THEN Failed(s)
  ELSE [s EXCEPT !.n = s.n + 1, !.ok = TRUE, !.pos = target]

ftello(s) ==
  IF s.n + 1 = s.failAt THEN Failed(s)
  ELSE [s EXCEPT !.n = s.n + 1, !.ok = TRUE, !.val = s.pos]

\* ------------------------------------------------------ Write, WriteData
Write(s, len, tag) == fwrite(s, len, tag)

WriteDataUncounted(s, len, tag) == Write(s, len, tag)
WriteData(s, len, tag) ==
  LET t == Write(s, len, tag)
  IN IF ~t.ok THEN t ELSE [t EXCEPT !.dsz = t.dsz + len]

\* static_cast<uint32_t>(x).  Every size of the model is below 2^31 (the
\* range of TLC's integers), where the cast changes nothing.
ToUint32(x) == x

\* --------------------------------------------------------------- records
Rec(type, size, cpu, time, id) ==
  [type |-> type, size |-> size, cpu |-> cpu, time |-> time, id |-> id]

RecTag(r) == Tag("rec", <<r.type, r.size, r.cpu, r.time, r.id>>)
TagRec(t) == Rec(t.v[1], t.v[2], t.v[3], t.v[4], t.v[5])

\* A record header in binary format (RecordHeader::MoveToBinaryFormat).
HdrTag(type, size) == Tag("rhdr", <<type, size>>)
\* Bytes [from, from + len) of the binary of record id.
BytesTag(r, from, len) == Tag("bytes", <<r.id, from, len>>)

\* std::min(RECORD_SIZE_LIMIT - Record::header_size(), left_bytes)
BytesToWriteNoHeader(left_bytes) == Min(RECORD_SIZE_LIMIT, left_bytes)
BytesToWrite(left_bytes) == Min(RECORD_SIZE_LIMIT - HeaderSize, left_bytes)

\* p += bytes_to_write
AdvanceNot(p, bytes_to_write) == p
Advance(p, bytes_to_write) == p + bytes_to_write

RECURSIVE SplitLoop(_, _, _, _)
SplitLoop(s, r, p, left_bytes) ==
  IF ~(left_bytes > 0) THEN s
  ELSE LET bytes_to_write == BytesToWrite(left_bytes)
           s1 == WriteData(s, HeaderSize,
                           HdrTag(SIMPLE_PERF_RECORD_SPLIT,
                                  bytes_to_write + HeaderSize))
       IN IF ~s1.ok THEN s1
          ELSE LET s2 == WriteData(s1, bytes_to_write,
                                   BytesTag(r, p, bytes_to_write))
               IN IF ~s2.ok THEN s2
                  ELSE SplitLoop(s2, r, Advance(p, bytes_to_write),
                                 left_bytes - bytes_to_write)

\* The return value of the branch for records within the size limit.
SmallRecordResult(t) == TRUE

\* CHECK_GT(record.type(), SIMPLE_PERF_RECORD_TYPE_START)
SplittableOrStart(type) == type >= SIMPLE_PERF_RECORD_TYPE_START
Splittable(type) == type > SIMPLE_PERF_RECORD_TYPE_START

WriteRecord(s, r) ==
  IF r.size <= RECORD_SIZE_LIMIT
  THEN LET t == WriteData(s, r.size, RecTag(r))
       IN [t EXCEPT !.ok = SmallRecordResult(t)]
  ELSE IF ~Splittable(r.type)
  THEN [s EXCEPT !.abort = TRUE, !.ok = FALSE]
  ELSE LET s1 == SplitLoop(s, r, 0, ToUint32(r.size))
       IN IF ~s1.ok THEN s1
          ELSE WriteData(s1, HeaderSize,
                         HdrTag(SIMPLE_PERF_RECORD_SPLIT_END, HeaderSize))

\* ------------------------------------------------------ WriteAttrSection
\* An attribute configuration: does it carry a timestamp, a cpu?  Each
\* capability is the set of answers a query of it can give: one answer for
\* a configuration that was assigned, both for an indeterminate one.
Attr(ts, cpu) == [ts |-> {ts}, cpu |-> {cpu}]
AttrConfigs == {Attr(ts, cpu) : ts \in BOOLEAN, cpu \in BOOLEAN}
CfgId(c) == (IF TRUE \in c.ts THEN 1 ELSE 0) + (IF TRUE \in c.cpu THEN 2 ELSE 0)
IsTimestampSupported(answer) == answer
IsCpuSupported(answer) == answer

\* attr_ids is a sequence of [attr, ids], ids the number of ids.
RECURSIVE WriteIds(_, _, _)
WriteIds(s, attr_ids, i) ==
  IF i > Len(attr_ids) THEN s
  ELSE LET t == Write(s, attr_ids[i].ids * SizeofU64,
                      Tag("ids", <<i, attr_ids[i].ids>>))
       IN IF ~t.ok THEN t ELSE WriteIds(t, attr_ids, i + 1)

RECURSIVE WriteFileAttrs(_, _, _, _)
WriteFileAttrs(s, attr_ids, i, id_section_offset) ==
  IF i > Len(attr_ids) THEN s
  ELSE LET size == attr_ids[i].ids * SizeofU64
           t == Write(s, SizeofFileAttr,
                      Tag("attr", <<CfgId(attr_ids[i].attr),
                                    id_section_offset, size>>))
       IN IF ~t.ok THEN t
          ELSE WriteFileAttrs(t, attr_ids, i + 1, id_section_offset + size)

\* The result: the I/O state, and the members as the call leaves them.
\* `return false': no member has been assigned.
FailedReturnResets(m) == [m EXCEPT !.aoff = 0, !.asz = 0, !.doff = 0]
FailedReturn(m) == m

AttrResult(s, ok, m) ==
  [io |-> [s EXCEPT !.ok = ok], m |-> IF ok THEN m ELSE FailedReturn(m)]

WriteAttrSection(s, attr_ids, m) ==
  IF attr_ids = <<>> THEN AttrResult(s, FALSE, m)
  ELSE
  LET s1 == fseek(s, SizeofFileHeader) IN
  IF ~s1.ok THEN AttrResult(s1, FALSE, m) ELSE
  LET s2 == ftello(s1) IN
  IF ~s2.ok THEN AttrResult(s2, FALSE, m) ELSE
  LET id_section_offset == s2.val
      s3 == WriteIds(s2, attr_ids, 1) IN
  IF ~s3.ok THEN AttrResult(s3, FALSE, m) ELSE
  LET s4 == ftello(s3) IN
  IF ~s4.ok THEN AttrResult(s4, FALSE, m) ELSE
  LET attr_section_offset == s4.val
      s5 == WriteFileAttrs(s4, attr_ids, 1, id_section_offset) IN
  IF ~s5.ok THEN AttrResult(s5, FALSE, m) ELSE
  LET s6 == ftello(s5) IN
  IF ~s6.ok THEN AttrResult(s6, FALSE, m) ELSE
  LET data_section_offset == s6.val IN
  AttrResult(s6, TRUE,
             [aoff |-> attr_section_offset,
              asz |-> data_section_offset - attr_section_offset,
              doff |-> data_section_offset,
              attr |-> attr_ids[1].attr])

\* -------------------------------------------------------------- features
SeekFileEnd(s) ==
  LET s1 == fseek(s, FileSize(s.file))
  IN IF ~s1.ok THEN s1 ELSE ftello(s1)

\* The offset of the descriptor table.
FeatureOffsetNoData(doff, dsz) == doff
FeatureOffset(doff, dsz) == doff + dsz

\* What WriteFeatureHeader writes: feature_header_size zero bytes.
FeatureHeaderSize(feature_count) == feature_count * SizeofSectionDesc

WriteFeatureHeader(s, feature_count, doff, dsz) ==
  LET s1 == fseek(s, FeatureOffset(doff, dsz))
  IN IF ~s1.ok THEN s1
     ELSE Write(s1, FeatureHeaderSize(feature_count), Tag("zero", <<>>))

\* CHECK_LT(current_feature_index_, feature_count_)
FeatureSlotFreeOrLast(index, count) == index <= count
FeatureSlotFree(index, count) == index < count

WriteFeatureBegin(s, index, count) ==
  IF ~FeatureSlotFree(index, count) THEN [s EXCEPT !.abort = TRUE, !.ok = FALSE]
  ELSE SeekFileEnd(s)

\* The slot of the descriptor table that WriteFeatureEnd fills.
SlotOffsetFirst(feature_offset, index) == feature_offset
SlotOffset(feature_offset, index) == feature_offset + index * SizeofSectionDesc

WriteFeatureEnd(s, feature, start_offset, doff, dsz, index) ==
  LET s1 == SeekFileEnd(s) IN
  IF ~s1.ok THEN s1 ELSE
  LET end_offset == s1.val
      feature_offset == FeatureOffset(doff, dsz)
      s2 == fseek(s1, SlotOffset(feature_offset, index)) IN
  IF ~s2.ok THEN s2
  ELSE Write(s2, SizeofSectionDesc,
             Tag("desc", <<start_offset, end_offset - start_offset>>))

Align(value, alignment) == ((value + alignment - 1) \div alignment) * alignment

\* A payload is the sequence of the handler's Write calls: [len, tag].
RECURSIVE WriteAll(_, _, _)
WriteAll(s, payload, i) ==
  IF i > Len(payload) THEN s
  ELSE LET t == Write(s, payload[i].len, payload[i].tag)
       IN IF ~t.ok THEN t ELSE WriteAll(t, payload, i + 1)

StringPayload(feature, size) ==
  LET len == ToUint32(Align(size + 1, StringAlign))
  IN <<[len |-> SizeofU32, tag |-> Tag("u32", <<feature, len>>)],
       [len |-> len, tag |-> Tag("chars", <<feature, size>>)]>>

RECURSIVE ArgsPayload(_, _)
ArgsPayload(cmdline, i) ==
  IF i > Len(cmdline) THEN <<>>
  ELSE StringPayload(FEAT_CMDLINE, cmdline[i]) \o ArgsPayload(cmdline, i + 1)

CmdlinePayload(cmdline) ==
  <<[len |-> SizeofU32, tag |-> Tag("u32", <<FEAT_CMDLINE, Len(cmdline)>>)]>>
  \o ArgsPayload(cmdline, 1)

BuildIdPayload(build_id_records) ==
  [i \in 1..Len(build_id_records) |->
     [len |-> build_id_records[i],
      tag |-> Tag("buildid", <<i, build_id_records[i]>>)]]

RECURSIVE PayloadSize(_)
PayloadSize(payload) ==
  IF payload = <<>> THEN 0 ELSE payload[1].len + PayloadSize(Tail(payload))

\* Begin, the payload, End: the body shared by the four feature writers.
\* `done' says that WriteFeatureEnd filled the slot.
WriteFeature(s, feature, payload, doff, dsz, index, count) ==
  LET s1 == WriteFeatureBegin(s, index, count) IN
  IF ~s1.ok THEN s1 ELSE
  LET start_offset == s1.val
      s2 == WriteAll(s1, payload, 1) IN
  IF ~s2.ok THEN s2
  ELSE WriteFeatureEnd(s2, feature, start_offset, doff, dsz, index)

WriteBuildIdFeature(s, build_id_records, doff, dsz, index, count) ==
  WriteFeature(s, FEAT_BUILD_ID, BuildIdPayload(build_id_records),
               doff, dsz, index, count)

WriteFeatureString(s, feature, size, doff, dsz, index, count) ==
  WriteFeature(s, feature, StringPayload(feature, size), doff, dsz, index, count)

WriteCmdlineFeature(s, cmdline, doff, dsz, index, count) ==
  WriteFeature(s, FEAT_CMDLINE, CmdlinePayload(cmdline), doff, dsz, index, count)

WriteBranchStackFeature(s, doff, dsz, index, count) ==
  WriteFeature(s, FEAT_BRANCH_STACK, <<>>, doff, dsz, index, count)

\* ------------------------------------------------- WriteFileHeader, Close
Range(q) == {q[i] : i \in 1..Len(q)}

\* header.features[feature / 8] |= 1 << (feature % 8): bit number
\* 8 * (feature / 8) + feature % 8 of the bitmap.
FeatureBitsOfByte(features) == {f \div 8 : f \in Range(features)}
FeatureBits(features) == {8 * (f \div 8) + (f % 8) : f \in Range(features)}

HeaderTag(aoff, asz, doff, dsz, features) ==
  [k |-> "hdr", v |-> <<aoff, asz, doff, dsz>>, bits |-> FeatureBits(features)]

WriteFileHeader(s, aoff, asz, doff, dsz, features) ==
  LET s1 == fseek(s, 0)
  IN IF ~s1.ok THEN s1
     ELSE Write(s1, SizeofFileHeader, HeaderTag(aoff, asz, doff, dsz, features))

\* =================================================================
\* The state machine
\* =================================================================
Cpus == 0..(NumCpus - 1)
Times == 1..MaxTime

\* event_attr_ before WriteAttrSection: the constructor does not initialise
\* it, so each capability query on it may answer either way.
Indeterminate == [ts |-> BOOLEAN, cpu |-> BOOLEAN]

Idle == [pc |-> "idle"]

NoTmp == [exists |-> FALSE, open |-> FALSE, recs |-> <<>>]

\* The members and the file as a call finds them.
Snap ==
  [file |-> file, pos |-> pos, aoff |-> attr_section_offset_,
   asz |-> attr_section_size_, doff |-> data_section_offset_,
   dsz |-> data_section_size_, count |-> feature_count_,
   index |-> current_feature_index_, features |-> features_,
   attr |-> event_attr_, fp |-> record_fp_]

\* RecordFileWriter::RecordFileWriter
Init ==
  /\ status = "running"
  /\ alive = TRUE
  /\ record_fp_ = "open"
  /\ file = {}
  /\ pos = 0
  /\ attr_section_offset_ = 0
  /\ attr_section_size_ = 0
  /\ data_section_offset_ = 0
  /\ data_section_size_ = 0
  /\ feature_count_ = 0
  /\ current_feature_index_ = 0
  /\ features_ = <<>>
  /\ event_attr_ = Indeterminate
  /\ sort = Idle
  /\ tmp = [c \in Cpus |-> NoTmp]
  /\ calls = [attr |-> 0, rec |-> 0, sort |-> 0, hdr |-> 0, feat |-> 0,
              close |-> 0]
  /\ last = [op |-> "new", arg |-> <<>>, ret |-> TRUE, err |-> FALSE,
             abort |-> FALSE]
  /\ env = [fcloses |-> 0, headers |-> 0, failures |-> 0, allok |-> TRUE,
            reserved |-> -1, used |-> -1, moved |-> FALSE, run |-> <<>>,
            clean |-> FALSE, tight |-> FALSE, since |-> FALSE,
            empty |-> FALSE]

\* A call is accepted: the process runs, the writer is alive and open, and
\* no other call is running.
Ready ==
  /\ status = "running"
  /\ alive
  /\ record_fp_ = "open"
  /\ sort.pc = "idle"

\* The I/O call of a handler that fails: one of its first k, or none (0).
FailChoices(k) == IF env.failures < MaxIoFailures THEN 0..k ELSE {0}
Count(b) == IF b THEN 1 ELSE 0

\* The history after a call that returned ret and is no feature call:
\* `since' says that WriteAttrSection has succeeded and that only
\* WriteRecord and SortDataSection were called since, without a failure;
\* `empty' that data_section_size_ was 0 at that WriteAttrSection;
\* `moved' says that WriteAttrSection or WriteRecord was called since the last
\* WriteFeatureHeader, `clean' that only successful feature writes were.
Noted(e, ret, err, moves) ==
  [e EXCEPT !.failures = @ + Count(err), !.allok = @ /\ ret,
            !.moved = @ \/ moves, !.clean = FALSE,
            !.since = @ /\ ret /\ ~err]

Result(op, arg, s) ==
  [op |-> op, arg |-> arg, ret |-> s.ok, err |-> s.err, abort |-> s.abort,
   at |-> pos]

\* The file effects of a handler that ran to its end (or to a CHECK).
Finish(op, arg, s) ==
  /\ file' = s.file
  /\ pos' = s.pos
  /\ status' = IF s.abort THEN "aborted" ELSE status
  /\ last' = Result(op, arg, s)

Members == [aoff |-> attr_section_offset_, asz |-> attr_section_size_,
            doff |-> data_section_offset_, attr |-> event_attr_]

Both == Attr(TRUE, TRUE)
Neither == Attr(FALSE, FALSE)

DoWriteAttrSection(inputs, limit) ==
  /\ Ready
  /\ calls.attr < limit
  /\ \E attr_ids \in inputs :
     \E failAt \in FailChoices(3 + 2 * Len(attr_ids)) :
       LET r == WriteAttrSection(Io(file, pos, data_section_size_, failAt),
                                 attr_ids, Members)
       IN /\ Finish("WriteAttrSection", attr_ids, r.io)
          /\ attr_section_offset_' = r.m.aoff
          /\ attr_section_size_' = r.m.asz
          /\ data_section_offset_' = r.m.doff
          /\ event_attr_' = r.m.attr
          /\ env' = [Noted(env, r.io.ok, r.io.err, TRUE) EXCEPT
                       !.since = r.io.ok /\ ~r.io.err,
                       !.empty = (data_section_size_ = 0)]
  /\ calls' = [calls EXCEPT !.attr = @ + 1]
  /\ UNCHANGED <<alive, record_fp_, data_section_size_, feature_count_,
                 current_feature_index_, features_, sort, tmp>>

\* WriteRecord of record r, whose I/O call failAt fails.
DoWriteRecordOf(r, failAt) ==
  LET s == WriteRecord(Io(file, pos, data_section_size_, failAt), r)
  IN /\ Finish("WriteRecord", r, s)
     /\ data_section_size_' = s.dsz
     /\ env' = Noted(env, s.ok, s.err, TRUE)
     /\ calls' = [calls EXCEPT !.rec = @ + 1]
     /\ UNCHANGED <<alive, record_fp_, attr_section_offset_,
                    attr_section_size_, data_section_offset_, feature_count_,
                    current_feature_index_, features_, event_attr_, sort, tmp>>

NextId == calls.rec + 1

\* The size of the sample record of a cpu at a time.
SampleSize(cpu, time) == 16 + 8 * ((cpu + time) % 2)

\* A sample record, within the size limit.
DoWriteRecord(limit, cpus, times) ==
  /\ Ready
  /\ calls.rec < limit
  /\ \E cpu \in cpus, time \in times, failAt \in FailChoices(1) :
       DoWriteRecordOf(Rec(PERF_RECORD_SAMPLE, SampleSize(cpu, time), cpu,
                           time, NextId), failAt)

DoWriteFeatureHeader ==
  /\ Ready
  /\ \E feature_count \in 0..MaxFeatures, failAt \in FailChoices(2) :
       LET s == WriteFeatureHeader(Io(file, pos, data_section_size_, failAt),
                                   feature_count, data_section_offset_,
                                   data_section_size_)
       IN /\ Finish("WriteFeatureHeader", feature_count, s)
          /\ feature_count_' = feature_count
          /\ current_feature_index_' = 0
          /\ env' = [env EXCEPT
                       !.failures = @ + Count(s.err),
                       !.allok = @ /\ s.ok,
                       !.reserved =
                          IF s.ok
                          THEN s.pos - feature_count * SizeofSectionDesc
                          ELSE -1,
                       !.used = -1,
                       !.moved = FALSE,
                       !.run = <<>>,
                       !.clean = s.ok,
                       !.tight = s.ok /\ FileSize(s.file) = s.pos,
                       !.since = FALSE]
  /\ calls' = [calls EXCEPT !.hdr = @ + 1]
  /\ UNCHANGED <<alive, record_fp_, attr_section_offset_, attr_section_size_,
                 data_section_offset_, data_section_size_, features_,
                 event_attr_, sort, tmp>>

\* The members after a feature writer returned s: WriteFeatureEnd
\* increments the index and remembers the feature when its Write succeeded.
FeatureDone(s, feature, payload) ==
  /\ current_feature_index_' =
       IF s.ok THEN current_feature_index_ + 1 ELSE current_feature_index_
  /\ features_' = IF s.ok THEN Append(features_, feature) ELSE features_
  /\ env' = [env EXCEPT
               !.failures = @ + Count(s.err),
               !.allok = @ /\ (s.ok \/ s.abort),
               !.used = IF s.ok
                        THEN s.pos - (current_feature_index_ + 1)
                                       * SizeofSectionDesc
                        ELSE @,
               !.run = IF s.ok THEN Append(@, PayloadSize(payload)) ELSE @,
               !.clean = @ /\ s.ok,
               !.since = FALSE]
  /\ calls' = [calls EXCEPT !.feat = @ + 1]
  /\ UNCHANGED <<alive, record_fp_, attr_section_offset_, attr_section_size_,
                 data_section_offset_, data_section_size_, feature_count_,
                 event_attr_, sort, tmp>>

FeatureReady == Ready

BuildIdInputs == {<<96, 104>>}
StringSizes == {6}
CmdlineInputs == {<<9>>}

DoWriteBuildIdFeature ==
  /\ FeatureReady
  /\ \E recs \in BuildIdInputs : \E failAt \in FailChoices(5 + Len(recs)) :
       LET s == WriteBuildIdFeature(Io(file, pos, data_section_size_, failAt),
                  recs, data_section_offset_, data_section_size_,
                  current_feature_index_, feature_count_)
       IN /\ Finish("WriteBuildIdFeature", recs, s)
          /\ FeatureDone(s, FEAT_BUILD_ID, BuildIdPayload(recs))

DoWriteFeatureString ==
  /\ FeatureReady
  /\ \E feature \in {FEAT_ARCH}, size \in StringSizes, failAt \in FailChoices(7) :
       LET s == WriteFeatureString(Io(file, pos, data_section_size_, failAt),
                  feature, size, data_section_offset_, data_section_size_,
                  current_feature_index_, feature_count_)
       IN Finish("WriteFeatureString", <<feature, size>>, s)
          /\ FeatureDone(s, feature, StringPayload(feature, size))

DoWriteCmdlineFeature ==
  /\ FeatureReady
  /\ \E cmdline \in CmdlineInputs :
     \E failAt \in FailChoices(6 + 2 * Len(cmdline)) :
       LET s == WriteCmdlineFeature(Io(file, pos, data_section_size_, failAt),
                  cmdline, data_section_offset_, data_section_size_,
                  current_feature_index_, feature_count_)
       IN /\ Finish("WriteCmdlineFeature", cmdline, s)
          /\ FeatureDone(s, FEAT_CMDLINE, CmdlinePayload(cmdline))

DoWriteBranchStackFeature ==
  /\ FeatureReady
  /\ \E failAt \in FailChoices(5) :
       LET s == WriteBranchStackFeature(Io(file, pos, data_section_size_, failAt),
                  data_section_offset_, data_section_size_,
                  current_feature_index_, feature_count_)
       IN Finish("WriteBranchStackFeature", <<>>, s)
          /\ FeatureDone(s, FEAT_BRANCH_STACK, <<>>)

\* Close(): CHECK(record_fp_ != nullptr), WriteFileHeader, fclose.
\* fclose releases the handle whether or not it reports an error.
Close(op, failAt, fcloseFails) ==
  IF record_fp_ = "null"
  THEN /\ status' = "aborted"
       /\ last' = [op |-> op, arg |-> "closed before", ret |-> FALSE,
                   err |-> FALSE, abort |-> TRUE]
       /\ UNCHANGED <<file, pos, record_fp_, env>>
  ELSE LET s == WriteFileHeader(Io(file, pos, data_section_size_, failAt),
                  attr_section_offset_, attr_section_size_,
                  data_section_offset_, data_section_size_, features_)
       IN /\ file' = s.file
          /\ pos' = s.pos
          /\ status' = status
          /\ record_fp_' = "null"
          /\ env' = [Noted(env, s.ok /\ ~fcloseFails, s.err, FALSE)
                       EXCEPT !.failures = @ + Count(fcloseFails),
                              !.since = FALSE,
                              !.fcloses = @ + 1, !.headers = @ + 1]
          /\ last' = [op |-> op, arg |-> "closes",
                      ret |-> s.ok /\ ~fcloseFails,
                      err |-> s.err \/ fcloseFails, abort |-> FALSE]

\* The failures of a Close: of one call of WriteFileHeader, or of fclose.
CloseFailures ==
  {<<f, c>> \in FailChoices(2) \X BOOLEAN :
     (c => env.failures + Count(f # 0) < MaxIoFailures)}

DoClose ==
  /\ status = "running"
  /\ alive
  /\ sort.pc = "idle"
  /\ calls.close < MaxCloses
  /\ \E fc \in CloseFailures : Close("Close", fc[1], fc[2])
  /\ calls' = [calls EXCEPT !.close = @ + 1]
  /\ UNCHANGED <<alive, fields, sort, tmp>>

\* if (record_fp_ != nullptr)
DestructorClosesAlways(fp) == TRUE
DestructorCloses(fp) == fp # "null"

\* ~RecordFileWriter(): Close() when the handle is still open.
Destroy ==
  /\ status = "running"
  /\ alive
  /\ sort.pc = "idle"
  /\ alive' = FALSE
  /\ IF DestructorCloses(record_fp_)
     THEN \E fc \in CloseFailures : Close("~RecordFileWriter", fc[1], fc[2])
     ELSE /\ last' = [op |-> "~RecordFileWriter", arg |-> "closed before",
                      ret |-> TRUE, err |-> FALSE, abort |-> FALSE]
          /\ UNCHANGED <<status, file, pos, record_fp_, env>>
  /\ UNCHANGED <<fields, sort, tmp, calls>>

\* ------------------------------------------------------ SortDataSection
\* ReadRecordFromFile(record_fp_): the record whose bytes start at p, or
\* none when the bytes at p are not those of a whole record.
RecordAt(f, p) ==
  {TagRec(e.tag) : e \in {x \in f : /\ x.off = p
                                    /\ x.skip = 0
                                    /\ x.tag.k = "rec"
                                    /\ x.len = x.tag.v[2]}}

\* r->Cpu(): the lane of a record, the key of cpu_map.
LaneOfOneFile(r) == 0
LaneOf(r) == r.cpu

\* RecordCache: Push, and the records ForcedPop may return, those of the
\* least timestamp (the order among equal timestamps is left open).
CachePush(cache, r) == Append(cache, r)
CacheMin(cache) ==
  {i \in 1..Len(cache) : \A j \in 1..Len(cache) : cache[i].time <= cache[j].time}
CacheRemove(cache, i) ==
  [j \in 1..(Len(cache) - 1) |-> IF j < i THEN cache[j] ELSE cache[j + 1]]

\* CpuData::CpuData: fopen(path, "web+") creates or truncates the file.
CpuData(opened) ==
  [fp |-> IF opened THEN "open" ELSE "null", data_size |-> 0, rd |-> 0,
   primed |-> FALSE]

\* WriteRecordToFile(fp, r) on the destination: the bytes of r at the
\* position; data_section_size_ is not touched.
WriteRecordToFileCounted(s, r) == WriteData(s, r.size, RecTag(r))
WriteRecordToFile(s, r) == fwrite(s, r.size, RecTag(r))

\* if (!IsTimestampSupported(event_attr_) || !IsCpuSupported(event_attr_))
SortOmittedIfBoth(ts, cpu) == ~IsTimestampSupported(ts) /\ ~IsCpuSupported(cpu)
SortOmitted(ts, cpu) == ~IsTimestampSupported(ts) \/ ~IsCpuSupported(cpu)

\* WriteRecordToFile(cpu_data->fp, r): r goes to the end of the lane's
\* scratch file.
ScratchPrepend(recs, r) == <<r>> \o recs
ScratchAppend(recs, r) == Append(recs, r)

\* uint32_t cpu = r->Cpu(), read before r is moved from: the lane that is
\* refilled is the lane of the record that was popped.
RefillLaneFirst(cpu) ==
  CHOOSE c \in DOMAIN sort.cpu_map : \A d \in DOMAIN sort.cpu_map : c <= d
RefillLane(cpu) == cpu

\* The next record of a lane's scratch file (ReadRecordFromFile on it).
ScratchNext(lane) ==
  IF sort.cpu_map[lane].rd < Len(tmp[lane].recs)
  THEN {tmp[lane].recs[sort.cpu_map[lane].rd + 1]}
  ELSE {}

\* The lanes whose scratch file ~CpuData leaves closed and unlinked.
\* fclose(nullptr), of a lane whose fopen failed, is undefined: the process
\* may crash there, after any of the other lanes, or carry on.
Released(cpu_map) ==
  LET lanes == DOMAIN cpu_map
      bad == {c \in lanes : cpu_map[c].fp = "null"}
  IN IF bad = {} THEN {[crash |-> FALSE, lanes |-> lanes]}
     ELSE {[crash |-> FALSE, lanes |-> lanes]}
          \cup {[crash |-> TRUE, lanes |-> l] : l \in SUBSET (lanes \ bad)}

\* ~CpuData: fclose(fp) of every entry of cpu_map, whatever fp is.
FcloseArgs(cpu_map) == {cpu_map[c].fp : c \in DOMAIN cpu_map}

\* cpu_data->fp == nullptr: fopen failed for a lane.
OpenFailed(cpu_map) == \E c \in DOMAIN cpu_map : cpu_map[c].fp = "null"

\* return ret: cpu_map goes out of scope.
SortReturn(ret, err, cpu_map, scratch) ==
  \E d \in Released(cpu_map) :
    /\ tmp' = [c \in Cpus |-> IF c \in d.lanes THEN NoTmp ELSE scratch[c]]
    /\ status' = IF d.crash THEN "aborted" ELSE status
    /\ sort' = Idle
    /\ last' = [op |-> "SortDataSection", arg |-> "sorted", ret |-> ret,
                err |-> err, abort |-> d.crash, pre |-> sort.pre,
                openfail |-> OpenFailed(cpu_map),
                closed |-> FcloseArgs(cpu_map)]
    /\ env' = Noted(env, ret, err, FALSE)

SortFails(k) == IF env.failures < MaxIoFailures THEN k ELSE {"none"}

EmptyMap == [c \in {} |-> CpuData(TRUE)]

SortBegin ==
  /\ Ready
  /\ calls.sort < MaxSorts
  /\ calls' = [calls EXCEPT !.sort = @ + 1]
  /\ \E ts \in event_attr_.ts, cpu \in event_attr_.cpu :
       IF SortOmitted(ts, cpu)
       THEN /\ last' = [op |-> "SortDataSection", arg |-> "skipped",
                        ret |-> TRUE, err |-> FALSE, abort |-> FALSE,
                        pre |-> Snap, openfail |-> FALSE, closed |-> {}]
            /\ env' = Noted(env, TRUE, FALSE, FALSE)
            /\ UNCHANGED <<pos, sort>>
       ELSE \E fail \in SortFails({"none", "seek"}) :
              IF fail = "seek"
              THEN /\ last' = [op |-> "SortDataSection", arg |-> "sorted",
                               ret |-> FALSE, err |-> TRUE, abort |-> FALSE,
                               pre |-> Snap, openfail |-> FALSE,
                               closed |-> {}]
                   /\ env' = Noted(env, FALSE, TRUE, FALSE)
                   /\ UNCHANGED <<pos, sort>>
              ELSE /\ pos' = data_section_offset_
                   /\ sort' = [pc |-> "phase1", cur_size |-> 0,
                               cpu_map |-> EmptyMap, cache |-> <<>>,
                               pre |-> Snap]
                   /\ env' = Noted(env, TRUE, FALSE, FALSE)
                   /\ UNCHANGED last
  /\ UNCHANGED <<status, alive, record_fp_, file, fields, tmp>>

\* One iteration of the loop of phase 1, or the fseek that follows it.
SortPartition ==
  /\ status = "running"
  /\ sort.pc = "phase1"
  /\ IF sort.cur_size < data_section_size_
     THEN
       LET got == RecordAt(file, pos) IN
       IF got = {}
       THEN /\ SortReturn(FALSE, FALSE, sort.cpu_map, tmp)
            /\ UNCHANGED <<file, pos>>
       ELSE
       \E r \in got :
       LET lane == LaneOf(r)
           new == lane \notin DOMAIN sort.cpu_map
       IN
       \E fail \in SortFails({"none", "read", "write"}
                             \cup (IF new THEN {"open"} ELSE {})) :
         IF fail = "read"
         THEN /\ SortReturn(FALSE, TRUE, sort.cpu_map, tmp)
              /\ UNCHANGED <<file, pos>>
         ELSE
         LET data == IF new THEN CpuData(fail # "open") ELSE sort.cpu_map[lane]
             cpu_map == [c \in DOMAIN sort.cpu_map \cup {lane} |->
                           IF c = lane
                           THEN [data EXCEPT !.data_size = @ + r.size]
                           ELSE sort.cpu_map[c]]
             created == IF new /\ fail # "open"
                        THEN [tmp EXCEPT ![lane] =
                                [exists |-> TRUE, open |-> TRUE, recs |-> <<>>]]
                        ELSE tmp
         IN
         IF fail = "open"
         THEN /\ SortReturn(FALSE, TRUE,
                            [c \in DOMAIN cpu_map |->
                               IF c = lane THEN data ELSE cpu_map[c]],
                            created)
              /\ pos' = pos + r.size
              /\ UNCHANGED file
         ELSE IF fail = "write"
         THEN /\ SortReturn(FALSE, TRUE, cpu_map, created)
              /\ pos' = pos + r.size
              /\ UNCHANGED file
         ELSE /\ sort' = [sort EXCEPT !.cur_size = @ + r.size,
                                      !.cpu_map = cpu_map]
              /\ tmp' = [created EXCEPT ![lane].recs = ScratchAppend(@, r)]
              /\ pos' = pos + r.size
              /\ UNCHANGED <<file, status, last, env>>
     ELSE
       \E fail \in SortFails({"none", "seek"}) :
         IF fail = "seek"
         THEN /\ SortReturn(FALSE, TRUE, sort.cpu_map, tmp)
              /\ UNCHANGED <<file, pos>>
         ELSE /\ pos' = data_section_offset_
              /\ sort' = [sort EXCEPT !.pc = IF DOMAIN sort.cpu_map = {}
                                             THEN "merge" ELSE "prime"]
              /\ UNCHANGED <<file, status, last, env, tmp>>
  /\ UNCHANGED <<alive, record_fp_, fields, calls>>

\* One iteration of the loop over cpu_map that fills the cache.
SortPrime ==
  /\ status = "running"
  /\ sort.pc = "prime"
  /\ \E lane \in {c \in DOMAIN sort.cpu_map : ~sort.cpu_map[c].primed} :
     \E fail \in SortFails({"none", "seek", "read"}) :
       IF fail # "none" \/ ScratchNext(lane) = {}
       THEN SortReturn(FALSE, fail # "none", sort.cpu_map, tmp)
       ELSE \E r \in ScratchNext(lane) :
            LET cpu_map == [sort.cpu_map EXCEPT
                              ![lane].data_size = @ - r.size,
                              ![lane].rd = 1,
                              ![lane].primed = TRUE]
            IN /\ sort' = [sort EXCEPT
                             !.cpu_map = cpu_map,
                             !.cache = CachePush(@, r),
                             !.pc = IF \A c \in DOMAIN cpu_map : cpu_map[c].primed
                                    THEN "merge" ELSE "prime"]
               /\ UNCHANGED <<status, last, env, tmp>>
  /\ UNCHANGED <<alive, record_fp_, file, pos, fields, calls>>

\* One iteration of the merge loop: ForcedPop, write, refill.
SortMerge ==
  /\ status = "running"
  /\ sort.pc = "merge"
  /\ IF sort.cache = <<>>
     THEN /\ SortReturn(TRUE, FALSE, sort.cpu_map, tmp)
          /\ UNCHANGED <<file, pos, data_section_size_>>
     ELSE
     \E i \in CacheMin(sort.cache) :
     LET r == sort.cache[i]
         cache == CacheRemove(sort.cache, i)
         cpu == RefillLane(LaneOf(r))
         refill == sort.cpu_map[cpu].data_size > 0
     IN
     \E fail \in SortFails({"none", "write"}
                           \cup (IF refill THEN {"read"} ELSE {})) :
       LET s == WriteRecordToFile(
                  Io(file, pos, data_section_size_,
                     IF fail = "write" THEN 1 ELSE 0), r)
       IN
       /\ file' = s.file
       /\ pos' = s.pos
       /\ data_section_size_' = s.dsz
       /\ IF ~s.ok
          THEN SortReturn(FALSE, s.err, sort.cpu_map, tmp)
          ELSE IF ~refill
          THEN /\ sort' = [sort EXCEPT !.cache = cache]
               /\ UNCHANGED <<status, last, env, tmp>>
          ELSE IF fail = "read" \/ ScratchNext(cpu) = {}
          THEN SortReturn(FALSE, fail = "read", sort.cpu_map, tmp)
          ELSE \E n \in ScratchNext(cpu) :
               /\ sort' = [sort EXCEPT
                             !.cache = CachePush(cache, n),
                             !.cpu_map[cpu].data_size = @ - n.size,
                             !.cpu_map[cpu].rd = @ + 1]
               /\ UNCHANGED <<status, last, env, tmp>>
  /\ UNCHANGED <<alive, record_fp_, attr_section_offset_, attr_section_size_,
                 data_section_offset_, feature_count_, current_feature_index_,
                 features_, event_attr_, calls>>

SortAttrInputs == {<<[attr |-> a, ids |-> 1]>> : a \in AttrConfigs}

\* Writing records and sorting them.
NextSort ==
  \/ DoWriteAttrSection(SortAttrInputs, MaxAttrCalls)
  \/ DoWriteRecord(MaxRecords, Cpus, Times)
  \/ SortBegin
  \/ SortPartition
  \/ SortPrime
  \/ SortMerge

SpecSort == Init /\ [][NextSort]_vars

LayoutAttrInputs ==
  {<<>>, <<[attr |-> Both, ids |-> 1]>>,
   <<[attr |-> Both, ids |-> 2], [attr |-> Neither, ids |-> 1]>>}

\* Records on both sides of the size limit, of a type that may be split
\* and of one that may not.
BigSizes ==
  {RECORD_SIZE_LIMIT, RECORD_SIZE_LIMIT + 1, 2 * (RECORD_SIZE_LIMIT - HeaderSize),
   2 * (RECORD_SIZE_LIMIT - HeaderSize) + 1}
RecordTypes ==
  {PERF_RECORD_SAMPLE, SIMPLE_PERF_RECORD_TYPE_START, SIMPLE_PERF_RECORD_DSO}

DoWriteBigRecord ==
  /\ Ready
  /\ calls.rec < MaxBigRecords
  /\ \E type \in RecordTypes, size \in BigSizes, failAt \in FailChoices(7) :
       DoWriteRecordOf(Rec(type, size, 0, 1, NextId), failAt)

\* Writing records that need splitting.
NextSplit ==
  \/ DoWriteAttrSection(SortAttrInputs, MaxAttrCalls)
  \/ DoWriteBigRecord

SpecSplit == Init /\ [][NextSplit]_vars

\* The end of a writer's life.
LifeBudget == calls.rec + calls.hdr + calls.feat < MaxLifeCalls
LifeRecord == LifeBudget /\ DoWriteRecord(MaxLifeCalls, {0}, {1})
LifeFeatureHeader == LifeBudget /\ DoWriteFeatureHeader
LifeBranchStackFeature == LifeBudget /\ DoWriteBranchStackFeature

NextLife ==
  \/ LifeRecord
  \/ LifeFeatureHeader
  \/ LifeBranchStackFeature
  \/ DoClose
  \/ Destroy

SpecLife == Init /\ [][NextLife]_vars

\* SortDataSection() runs without interruption: a loop that can make its
\* next iteration makes it.
SpecSortLive ==
  /\ SpecSort
  /\ WF_vars(SortPartition)
  /\ WF_vars(SortPrime)
  /\ WF_vars(SortMerge)

\* The feature section and the header that describes it.
FeatBudget == calls.hdr + calls.feat < MaxFeatCalls
FeatHeader == FeatBudget /\ DoWriteFeatureHeader
FeatBuildId == FeatBudget /\ DoWriteBuildIdFeature
FeatString == FeatBudget /\ DoWriteFeatureString
FeatBranchStack == FeatBudget /\ DoWriteBranchStackFeature

NextFeat ==
  \/ FeatHeader
  \/ FeatBuildId
  \/ FeatString
  \/ FeatBranchStack
  \/ DoClose

SpecFeat == Init /\ [][NextFeat]_vars

\* At most MaxCalls calls are made on a writer.
Budget == calls.attr + calls.rec + calls.hdr + calls.feat + calls.sort < MaxCalls

LayoutAttrSection == Budget /\ DoWriteAttrSection(LayoutAttrInputs, MaxCalls)
LayoutRecord == Budget /\ DoWriteRecord(MaxCalls, {0}, {1})
LayoutFeatureHeader == Budget /\ DoWriteFeatureHeader
LayoutBuildIdFeature == Budget /\ DoWriteBuildIdFeature
LayoutFeatureString == Budget /\ DoWriteFeatureString
LayoutCmdlineFeature == Budget /\ DoWriteCmdlineFeature
LayoutBranchStackFeature == Budget /\ DoWriteBranchStackFeature
LayoutSortBegin == Budget /\ SortBegin

\* The writer's operations on the layout of the file; a call that was
\* accepted runs to its end.
Next ==
  \/ LayoutAttrSection
  \/ LayoutRecord
  \/ LayoutFeatureHeader
  \/ LayoutBuildIdFeature
  \/ LayoutFeatureString
  \/ LayoutCmdlineFeature
  \/ LayoutBranchStackFeature
  \/ LayoutSortBegin
  \/ SortPartition
  \/ SortPrime
  \/ SortMerge

Spec == Init /\ [][Next]_vars

\* =================================================================
\* Properties
\* =================================================================
\* The records of the byte range [p, end) of f, read one after the other
\* as SortDataSection reads them, up to the first offset that holds none.
RECURSIVE ParseRecords(_, _, _)
ParseRecords(f, p, end) ==
  IF p >= end \/ RecordAt(f, p) = {} THEN <<>>
  ELSE LET r == CHOOSE x \in RecordAt(f, p) : TRUE
       IN <<r>> \o ParseRecords(f, p + r.size, end)

RECURSIVE SumSizes(_)
SumSizes(q) == IF q = <<>> THEN 0 ELSE q[1].size + SumSizes(Tail(q))

DataSection(f, doff, dsz) == ParseRecords(f, doff, doff + dsz)
DataNow == DataSection(file, data_section_offset_, data_section_size_)
DataBefore == DataSection(last.pre.file, last.pre.doff, last.pre.dsz)

\* The data section is made of whole records and nothing else.
MadeOfRecords(q, dsz) == SumSizes(q) = dsz

TimeSorted(q) == \A i, j \in 1..Len(q) : i < j => q[i].time <= q[j].time
LanesSorted(q) ==
  \A i, j \in 1..Len(q) : i < j /\ q[i].cpu = q[j].cpu => q[i].time <= q[j].time

\* SortDataSection() has returned, did not omit the sort, and no other
\* call has begun.
SortReturned ==
  last.op = "SortDataSection" /\ last.arg = "sorted" /\ sort.pc = "idle"
SortSucceeded == SortReturned /\ last.ret

\* C1: after a successful sort of a data section whose records are in
\* non-decreasing timestamp order within each lane, the data section holds
\* whole records in non-decreasing timestamp order.
C1_SortCorrect ==
  (SortSucceeded /\ MadeOfRecords(DataBefore, last.pre.dsz)
     /\ LanesSorted(DataBefore))
  => /\ MadeOfRecords(DataNow, data_section_size_)
     /\ TimeSorted(DataNow)

\* Three records of two lanes, each lane in order, that were out of order.
C1_Witness ==
  /\ SortSucceeded
  /\ Len(DataBefore) >= 3
  /\ MadeOfRecords(DataBefore, last.pre.dsz)
  /\ LanesSorted(DataBefore)
  /\ ~TimeSorted(DataBefore)
  /\ TimeSorted(DataNow)

\* C2: a successful sort writes back the records it found, each once, into
\* exactly the byte range of the data section, and no step of a sort,
\* successful or not, changes data_section_size_.
C2_SortPreserves ==
  /\ SortSucceeded =>
       /\ MadeOfRecords(DataBefore, last.pre.dsz)
       /\ MadeOfRecords(DataNow, data_section_size_)
       /\ Len(DataNow) = Len(DataBefore)
       /\ Range(DataNow) = Range(DataBefore)
       /\ pos = data_section_offset_ + data_section_size_
  /\ SortReturned => data_section_size_ = last.pre.dsz
  /\ sort.pc # "idle" => data_section_size_ = sort.pre.dsz

C2_Witness ==
  /\ SortSucceeded
  /\ Len(DataBefore) >= 3
  /\ DataNow # DataBefore

\* C9: with a retained configuration that lacks the timestamp or the lane
\* id, SortDataSection() returns success, leaves the file and its position
\* alone and creates no scratch file.
C9_SortSkip ==
  /\ (last.op = "SortDataSection"
        /\ (last.pre.attr.ts = {FALSE} \/ last.pre.attr.cpu = {FALSE}))
     => /\ last.arg = "skipped"
        /\ last.ret
        /\ file = last.pre.file
        /\ pos = last.pre.pos
        /\ data_section_size_ = last.pre.dsz
        /\ \A c \in Cpus : tmp[c] = NoTmp
        /\ sort = Idle
  /\ sort.pc # "idle" => (TRUE \in event_attr_.ts /\ TRUE \in event_attr_.cpu)

C9_Witness ==
  /\ last.op = "SortDataSection"
  /\ last.pre.attr.ts = {TRUE}
  /\ last.pre.attr.cpu = {FALSE}
  /\ Len(DataNow) >= 2
  /\ ~TimeSorted(DataNow)

\* C3: WriteRecord returns false whenever a write of the record's bytes
\* failed, whatever the size of the record.
C3_WriteFailureReported ==
  (last.op = "WriteRecord" /\ last.err) => ~last.ret

\* The records between offsets p and end, as a reader finds them: a header
\* and, when the header's size says so, the bytes that follow it.
RECURSIVE ReadChunks(_, _, _)
ReadChunks(f, p, end) ==
  IF p >= end THEN <<>>
  ELSE LET hs == {e \in f : e.off = p /\ e.skip = 0 /\ e.len = HeaderSize
                            /\ e.tag.k = "rhdr"}
       IN IF hs = {} THEN <<[type |-> -1, size |-> 0, id |-> -1, from |-> -1,
                             len |-> -1]>>
          ELSE LET h == CHOOSE e \in hs : TRUE
                   size == h.tag.v[2]
                   bs == {e \in f : e.off = p + HeaderSize /\ e.skip = 0
                                    /\ e.len = size - HeaderSize
                                    /\ e.tag.k = "bytes"}
               IN IF size = HeaderSize
                  THEN <<[type |-> h.tag.v[1], size |-> size, id |-> -1,
                          from |-> -1, len |-> 0]>>
                       \o ReadChunks(f, p + size, end)
                  ELSE IF bs = {}
                  THEN <<[type |-> -1, size |-> 0, id |-> -1, from |-> -1,
                          len |-> -1]>>
                  ELSE LET b == CHOOSE e \in bs : TRUE
                       IN <<[type |-> h.tag.v[1], size |-> size,
                             id |-> b.tag.v[1], from |-> b.tag.v[2],
                             len |-> b.tag.v[3]]>>
                          \o ReadChunks(f, p + size, end)

RECURSIVE SumLens(_, _)
SumLens(q, n) == IF n = 0 THEN 0 ELSE q[n].len + SumLens(q, n - 1)

\* A successful WriteRecord of a record over the size limit.
SplitWritten ==
  last.op = "WriteRecord" /\ last.ret /\ last.arg.size > RECORD_SIZE_LIMIT

\* C4: what WriteRecord emits for a record over the size limit reads back
\* as SPLIT records and one SPLIT_END record, and the payloads of the SPLIT
\* records, one after the other, are the bytes of the record in order.
C4_SplitRejoin ==
  SplitWritten =>
    LET q == ReadChunks(file, last.at, pos)
        n == Len(q)
    IN /\ n >= 2
       /\ q[n].type = SIMPLE_PERF_RECORD_SPLIT_END
       /\ q[n].size = HeaderSize
       /\ \A i \in 1..(n - 1) :
            /\ q[i].type = SIMPLE_PERF_RECORD_SPLIT
            /\ q[i].id = last.arg.id
            /\ q[i].len = q[i].size - HeaderSize
            /\ q[i].len > 0
            /\ q[i].from = SumLens(q, i - 1)
       /\ SumLens(q, n - 1) = last.arg.size

\* A record of three chunks, written after the attribute section.
C4_Witness ==
  /\ SplitWritten
  /\ last.arg.size = 2 * (RECORD_SIZE_LIMIT - HeaderSize) + 1
  /\ last.at > 0
  /\ Len(ReadChunks(file, last.at, pos)) = 4

\* Where the descriptor table was reserved, and the slots that were used.
Declared == env.reserved >= 0

\* C5 as stated: after calls that all returned true, the data section
\* starts where the attribute section ends, and a declared descriptor table
\* starts at the end of the data section, where WriteFeatureEnd looks for it.
C5_Contiguity ==
  env.allok =>
    /\ data_section_offset_ = attr_section_offset_ + attr_section_size_
    /\ Declared =>
         /\ env.reserved = data_section_offset_ + data_section_size_
         /\ env.used >= 0 => env.used = env.reserved

\* C5 amended: the same, for a table after whose declaration neither
\* WriteAttrSection nor WriteRecord was called.
C5_ContiguityUnmoved ==
  env.allok =>
    /\ data_section_offset_ = attr_section_offset_ + attr_section_size_
    /\ (Declared /\ ~env.moved) =>
         /\ env.reserved = data_section_offset_ + data_section_size_
         /\ env.used >= 0 => env.used = env.reserved

C5_Witness ==
  /\ env.allok
  /\ Declared
  /\ ~env.moved
  /\ env.used = env.reserved
  /\ attr_section_size_ > 0
  /\ data_section_size_ > 0

\* WriteFeatureHeader(n), n >= 1, then n successful feature writes and no
\* other call.
TableFilled ==
  env.clean /\ feature_count_ >= 1 /\ Len(env.run) = feature_count_

TableEnd == env.reserved + feature_count_ * SizeofSectionDesc

\* Where the payload of the i-th feature starts when the payloads follow
\* the table and each other without gaps.
RECURSIVE RunOffset(_)
RunOffset(i) == IF i = 1 THEN TableEnd ELSE RunOffset(i - 1) + env.run[i - 1]

TableCovers ==
  /\ \A i \in 1..feature_count_ :
       Extent(env.reserved + (i - 1) * SizeofSectionDesc, SizeofSectionDesc,
              Tag("desc", <<RunOffset(i), env.run[i]>>)) \in file
  /\ RunOffset(feature_count_ + 1) = FileSize(file)

\* C6 as stated: slot i holds the descriptor of the i-th feature, the
\* first payload starts at the end of the table, each next one where the
\* one before ends, and the last one ends at the end of the file.
C6_TableIntegrity == TableFilled => TableCovers

\* C6 amended: the same, when the file ended with the reserved table as
\* WriteFeatureHeader returned.
C6_TableIntegrityTight == (TableFilled /\ env.tight) => TableCovers

C6_Witness ==
  /\ TableFilled
  /\ env.tight
  /\ feature_count_ = 2
  /\ env.run[1] > 0
  /\ env.run[2] = 0
  /\ data_section_size_ > 0

\* C7: a feature write with every declared slot filled (none declared
\* included) stops the process in WriteFeatureBegin: nothing is written
\* and the call does not return.
C7_OverflowIsFatal ==
  [][(calls'.feat # calls.feat /\ current_feature_index_ >= feature_count_)
     => /\ status' = "aborted"
        /\ last'.abort
        /\ ~last'.ret
        /\ file' = file
        /\ current_feature_index_' = current_feature_index_
        /\ features_' = features_]_vars

\* A third feature after WriteFeatureHeader(2).
C7_Witness ==
  /\ status = "aborted"
  /\ last.op = "WriteFeatureString"
  /\ feature_count_ = 2
  /\ current_feature_index_ = 2

\* C8: WriteFeatureHeader(count) with no failing seek or write returns
\* true, for every count, with count * sizeof(SectionDesc) zero bytes at the
\* end of the data section, feature_count_ = count and the index 0.
C8_HeaderReserves ==
  (last.op = "WriteFeatureHeader" /\ ~last.err) =>
    /\ last.ret
    /\ feature_count_ = last.arg
    /\ current_feature_index_ = 0
    /\ pos = data_section_offset_ + data_section_size_
             + last.arg * SizeofSectionDesc
    /\ last.arg > 0 =>
         Extent(data_section_offset_ + data_section_size_,
                last.arg * SizeofSectionDesc, Tag("zero", <<>>)) \in file

\* C10: the handle is closed once and WriteFileHeader runs once, with that
\* close; a destroyed writer is closed, by Close() or else by its
\* destructor; a second Close() stops the process and closes nothing; and
\* Close() releases the handle whatever fails.
Closing(op) == last.op = op /\ last.arg = "closes"

C10_ClosedOnce ==
  /\ env.fcloses <= 1
  /\ env.headers = env.fcloses
  /\ (record_fp_ = "null") = (env.fcloses = 1)
  /\ ~alive => (status = "running" /\ env.fcloses = 1)
  /\ (last.op = "Close" /\ last.abort) =>
       (calls.close >= 2 /\ status = "aborted" /\ env.fcloses = 1)
  /\ (last.op = "~RecordFileWriter" /\ last.arg = "closed before") =>
       calls.close >= 1
  /\ (Closing("Close") \/ Closing("~RecordFileWriter")) =>
       /\ record_fp_ = "null"
       /\ ~last.err =>
            /\ last.ret
            /\ Extent(0, SizeofFileHeader,
                      HeaderTag(attr_section_offset_, attr_section_size_,
                                data_section_offset_, data_section_size_,
                                features_)) \in file

\* A writer whose Close() reported a failure, destroyed afterwards.
C10_Witness ==
  /\ ~alive
  /\ calls.close = 1
  /\ env.failures = 1
  /\ last.op = "~RecordFileWriter"

\* C11: a WriteAttrSection that returns false, or in which a seek, tell or
\* write failed, leaves attr_section_offset_, attr_section_size_,
\* data_section_offset_ and event_attr_ as they were.
C11_FailureKeepsMembers ==
  [][(calls'.attr # calls.attr /\ (~last'.ret \/ last'.err))
     => /\ ~last'.ret
        /\ attr_section_offset_' = attr_section_offset_
        /\ attr_section_size_' = attr_section_size_
        /\ data_section_offset_' = data_section_offset_
        /\ event_attr_' = event_attr_]_vars

\* A second WriteAttrSection that failed in a write after it had moved the
\* file position, the first one having set the members.
C11_Witness ==
  /\ last.op = "WriteAttrSection"
  /\ ~last.ret
  /\ last.err
  /\ calls.attr = 2
  /\ Len(last.arg) = 2
  /\ pos > SizeofFileHeader
  /\ attr_section_offset_ = SizeofFileHeader + SizeofU64
  /\ data_section_offset_ = attr_section_offset_ + SizeofFileAttr
  /\ event_attr_ = Both

\* SortDataSection() is not running and was the last call to run.
SortEnded == last.op = "SortDataSection" /\ sort.pc = "idle"

\* C12: when SortDataSection() has ended, by success or by any failure of
\* phase 1 or phase 2, no scratch file of it exists and none is open.
C12_ScratchReleased ==
  SortEnded => \A c \in Cpus : ~tmp[c].exists /\ ~tmp[c].open

\* The same of the calls that came back to their caller.
ScratchReleasedOnReturn ==
  (SortEnded /\ ~last.abort) => \A c \in Cpus : tmp[c] = NoTmp

\* C13: when fopen of a lane's scratch file fails, SortDataSection()
\* returns false to its caller: the process goes on, and no null handle
\* was given to fclose.
C13_OpenFailureReturns ==
  (SortEnded /\ last.openfail) =>
    /\ ~last.ret
    /\ ~last.abort
    /\ status = "running"
    /\ "null" \notin last.closed

\* C14: WriteRecord of a record over the size limit whose type is not above
\* SIMPLE_PERF_RECORD_TYPE_START stops the process before it writes: the
\* file, its position and data_section_size_ stay as they were.
C14_LegacyOversizeIsFatal ==
  [][(calls'.rec # calls.rec
        /\ last'.arg.size > RECORD_SIZE_LIMIT
        /\ last'.arg.type <= SIMPLE_PERF_RECORD_TYPE_START)
     => /\ status' = "aborted"
        /\ last'.abort
        /\ ~last'.ret
        /\ file' = file
        /\ pos' = pos
        /\ data_section_size_' = data_section_size_]_vars

\* A record of the threshold type itself, after a record was split.
C14_Witness ==
  /\ status = "aborted"
  /\ last.op = "WriteRecord"
  /\ last.arg.type = SIMPLE_PERF_RECORD_TYPE_START
  /\ last.arg.size = RECORD_SIZE_LIMIT + 1
  /\ calls.rec = 2
  /\ data_section_size_ > RECORD_SIZE_LIMIT

Ceil(a, b) == (a + b - 1) \div b

\* C15: without a write failure, WriteRecord of S > 65535 bytes emits
\* k = ceil(S / (65535 - header size)) SPLIT records, each with size = header
\* size + payload <= 65535 and all but the last of size 65535, then one
\* SPLIT_END of header size, and adds S + (k + 1) * header size to
\* data_section_size_.
C15_ChunkArithmetic ==
  [][(calls'.rec # calls.rec
        /\ last'.arg.size > RECORD_SIZE_LIMIT
        /\ Splittable(last'.arg.type)
        /\ ~last'.err)
     => LET S == last'.arg.size
            k == Ceil(S, RECORD_SIZE_LIMIT - HeaderSize)
            q == ReadChunks(file', pos, pos')
        IN /\ last'.ret
           /\ Len(q) = k + 1
           /\ \A i \in 1..k :
                /\ q[i].type = SIMPLE_PERF_RECORD_SPLIT
                /\ q[i].size = HeaderSize + q[i].len
                /\ q[i].size <= RECORD_SIZE_LIMIT
                /\ i < k => q[i].size = RECORD_SIZE_LIMIT
           /\ q[k + 1].type = SIMPLE_PERF_RECORD_SPLIT_END
           /\ q[k + 1].size = HeaderSize
           /\ pos' = pos + S + (k + 1) * HeaderSize
           /\ data_section_size_' =
                data_section_size_ + S + (k + 1) * HeaderSize]_vars

\* One byte over the limit: a full chunk, a chunk of 9 bytes, the end.
C15_Witness ==
  /\ SplitWritten
  /\ ~last.err
  /\ last.arg.size = RECORD_SIZE_LIMIT + 1
  /\ calls.rec = 1
  /\ data_section_size_ = RECORD_SIZE_LIMIT + 1 + 3 * HeaderSize
  /\ ReadChunks(file, last.at, pos)[2].size = HeaderSize + 9

\* The records of lane c in q, in the order of q.
RECURSIVE LaneRecords(_, _)
LaneRecords(q, c) ==
  IF q = <<>> THEN <<>>
  ELSE (IF LaneOf(Head(q)) = c THEN <<Head(q)>> ELSE <<>>)
       \o LaneRecords(Tail(q), c)

\* C16: during phase 2 the cache holds at most one record of each lane,
\* hence no more records than there are lanes; and when a record is about
\* to be popped, each lane with data_size > 0 has exactly one record in it.
C16_OnePerLane ==
  sort.pc \in {"prime", "merge"} =>
    /\ \A c \in Cpus : Len(LaneRecords(sort.cache, c)) <= 1
    /\ Len(sort.cache) <= Cardinality(DOMAIN sort.cpu_map)
    /\ sort.pc = "merge" =>
         \A c \in DOMAIN sort.cpu_map :
           sort.cpu_map[c].data_size > 0
             => Len(LaneRecords(sort.cache, c)) = 1

\* After a pop and its refill: a record of each of two lanes in the cache.
C16_Witness ==
  /\ sort.pc = "merge"
  /\ pos > data_section_offset_
  /\ Len(sort.cache) = 2
  /\ Cardinality(DOMAIN sort.cpu_map) = 2

\* C17: a successful sort leaves the records of each lane in the order
\* they had before it, whatever their timestamps.
C17_LaneOrderKept ==
  SortSucceeded =>
    \A c \in Cpus : LaneRecords(DataNow, c) = LaneRecords(DataBefore, c)

\* A lane whose two records were not in time order, moved by the sort.
C17_Witness ==
  /\ SortSucceeded
  /\ ~LanesSorted(DataBefore)
  /\ DataNow # DataBefore
  /\ \E c \in Cpus : Len(LaneRecords(DataNow, c)) = 2

\* A WriteRecord made in a run of WriteRecord and SortDataSection calls
\* that follows a successful WriteAttrSection, all without an I/O failure,
\* starts at data_section_offset_ + data_section_size_ and leaves the data
\* section one range of whole records.
RecordAppended ==
  (calls'.rec # calls.rec /\ env.since /\ ~last'.err)
  => /\ pos = data_section_offset_ + data_section_size_
     /\ last'.at = data_section_offset_ + data_section_size_
     /\ Extent(pos, last'.arg.size, RecTag(last'.arg)) \in file'
     /\ data_section_size_' = data_section_size_ + last'.arg.size
     /\ MadeOfRecords(DataSection(file', data_section_offset_',
                                  data_section_size_'),
                      data_section_size_')

\* C18 as stated: every WriteRecord of such a run is appended to the data
\* section, after a completed sort too.
C18_RecordsAppend == [][RecordAppended]_vars

\* C18 amended: the same, when data_section_size_ was 0 at the
\* WriteAttrSection that the run follows.
C18_RecordsAppendFromEmpty == [][env.empty => RecordAppended]_vars

\* The record written after a sort that moved records.
C18_Witness ==
  /\ env.since
  /\ env.empty
  /\ last.op = "WriteRecord"
  /\ last.arg.id = 3
  /\ Len(DataNow) = 3
  /\ DataNow[1].id = 2
  /\ DataNow[2].id = 1
  /\ DataNow[3].id = 3
  /\ last.at = data_section_offset_ + data_section_size_ - last.arg.size

\* The file headers at the start of the file.
HeadersWritten ==
  {e \in file : e.off = 0 /\ e.skip = 0 /\ e.len = SizeofFileHeader
                /\ e.tag.k = "hdr"}

\* Close() has written the header.
HeaderClosed == Closing("Close") /\ ~last.err

BitsCountSlots ==
  /\ HeadersWritten # {}
  /\ \A e \in HeadersWritten :
       Cardinality(e.tag.bits) = current_feature_index_

\* C19 as stated: the header written by Close() has as many feature bits
\* set as there are filled descriptor slots (current_feature_index_).
C19_BitsAreSlots == HeaderClosed => BitsCountSlots

\* C19 amended: the same, after at most one WriteFeatureHeader and feature
\* writes of pairwise distinct feature kinds.
C19_BitsAreSlotsOnce ==
  (HeaderClosed /\ calls.hdr <= 1
     /\ Cardinality(Range(features_)) = Len(features_))
  => BitsCountSlots

\* Two features of different kinds in the two slots, and one that failed.
C19_Witness ==
  /\ HeaderClosed
  /\ calls.hdr = 1
  /\ feature_count_ = 2
  /\ current_feature_index_ = 2
  /\ calls.feat = 2
  /\ features_ = <<FEAT_BUILD_ID, FEAT_ARCH>>

\* The data section a running sort found was made of whole records.
SortingRecords ==
  MadeOfRecords(DataSection(sort.pre.file, sort.pre.doff, sort.pre.dsz),
                sort.pre.dsz)

\* The loop of phase 1 has ended by its test.
PartitionEnded == sort.pc \in {"prime", "merge"}

\* A step that ends a running sort with the result ret.
SortEnds(ret) == sort.pc # "idle" /\ sort'.pc = "idle" /\ last'.ret = ret

\* C20: a SortDataSection() that has started ends.  Over a data section of
\* whole records, phase 1 ends having read data_section_size_ bytes, and a
\* call in which nothing failed ends in phase 2, with success, the cache
\* empty, every data_size 0 and as many records written as were read.  A
\* failure ends the call in the iteration it occurs in: a failing call of
\* phase 1 or of the priming loop writes nothing to the destination, one
\* of phase 2 at most the record it had popped before the failure.
C20_SortTerminates ==
  /\ (sort.pc # "idle") ~> (sort.pc = "idle")
  /\ []((PartitionEnded /\ SortingRecords)
          => sort.cur_size = data_section_size_)
  /\ [][(SortEnds(TRUE) \/ SortEnds(FALSE))
          /\ SortingRecords /\ ~last'.err /\ ~last'.abort
        => /\ last'.ret
           /\ sort.pc = "merge"]_vars
  /\ [][SortEnds(TRUE)
        => /\ ~last'.err
           /\ sort.cache = <<>>
           /\ \A c \in DOMAIN sort.cpu_map : sort.cpu_map[c].data_size = 0
           /\ file' = file
           /\ pos' = pos
           /\ pos = data_section_offset_ + sort.cur_size]_vars
  /\ [][SortEnds(FALSE)
        => IF sort.pc = "merge"
           THEN \/ file' = file /\ pos' = pos
                \/ \E i \in CacheMin(sort.cache) :
                     /\ pos' = pos + sort.cache[i].size
                     /\ file' = WriteAt(file, pos, sort.cache[i].size,
                                        RecTag(sort.cache[i]))
           ELSE file' = file]_vars

\* Three records of two lanes, read and written back with no failure.
C20_Witness ==
  /\ SortSucceeded
  /\ env.failures = 0
  /\ Len(DataBefore) = 3
  /\ Len(DataNow) = 3
  /\ \E i, j \in 1..3 : LaneOf(DataNow[i]) # LaneOf(DataNow[j])
  /\ pos = data_section_offset_ + data_section_size_

====
